---- MODULE Spec2Model ----
(***************************************************************************)
(* Model of run_simulation (src/simulation.py): a multi-server checkout    *)
(* queue driven by a discrete-event scheduler.  The scheduler, the         *)
(* resource and the process machinery are those of the simpy library the   *)
(* function calls (Environment, Resource, Process, Timeout); the random    *)
(* stream is the module-level generator of Python's `random`, which is     *)
(* shared by every invocation in the interpreter.                          *)
(*                                                                         *)
(* Time is an integer grid.  Two invocations are modelled so that          *)
(* properties comparing two runs can be stated.                            *)
(***************************************************************************)
EXTENDS Integers, Sequences, FiniteSets, TLC

\* ---------------------------------------------------------------------
\* Bounds of the model
\* ---------------------------------------------------------------------
MaxServers == 2
MaxRate == 2
MaxServiceTime == 5
MaxSimTime == 11
MaxGap == 4
StreamLen == 3

\* ---------------------------------------------------------------------
\* Names
\* ---------------------------------------------------------------------
Runs == {1, 2}

\* simpy event priorities (simpy.core.URGENT / NORMAL), used by env.process,
\* env.timeout, Resource.request/release and env.run(until=...)
URGENT == 0
NORMAL == 1

\* owner of an event: the customer_generator process, a customer index
\* (0, 1, ...), or nobody (the `until` event of env.run)
GEN == -1
NOBODY == -2

\* a local variable that has not been assigned yet
NoTime == -1

\* None / a float value, for avg_wait_time and avg_system_time
None == <<>>
Some(v) == <<v>>

\* ---------------------------------------------------------------------
\* The module-level random generator: random.seed / random.expovariate
\* ---------------------------------------------------------------------
RECURSIVE Pow(_, _)
Pow(b, e) == IF e = 0 THEN 1 ELSE b * Pow(b, e - 1)

\* seeds: every stream of StreamLen two-valued samples has a seed
Seeds == 0 .. (Pow(2, StreamLen) - 1)

RngStates == [seed : Seeds, pos : 0 .. (StreamLen - 1)]

\* random.seed(random_seed) is skipped: the generator keeps its state
SeedKeepsState(g, s) == g

\* random.seed(random_seed): the stream restarts at the seed's first sample
Seed(g, s) == [seed |-> s, pos |-> 0]

\* the sample the generator state yields (self.random()), as a level 0 / 1
Sample(g) == (g.seed \div Pow(2, g.pos)) % 2

\* the generator state after one sample
Advance(g) == [g EXCEPT !.pos = (@ + 1) % StreamLen]

\* -log(1 - u) for the sample level, in ticks scaled by MaxRate so that
\* the gap at the highest rate is at least one tick
Quantile(level) == IF level = 0 THEN MaxRate ELSE MaxRate * MaxGap

\* random.expovariate(lambd) = -log(1 - random()) / lambd, lambd # 0
Expovariate(level, lambd) ==
    IF lambd > 0 THEN Quantile(level) \div lambd
    ELSE 0 - (Quantile(level) \div (0 - lambd))

\* ---------------------------------------------------------------------
\* Parameters of one invocation
\* ---------------------------------------------------------------------
Params == [n_servers : 0 .. MaxServers,
           arrival_rate : -1 .. MaxRate,
           service_time : -1 .. MaxServiceTime,
           sim_time : -1 .. MaxSimTime,
           random_seed : Seeds,
           verbose : BOOLEAN]

\* the second invocation repeats the first one's parameters, possibly with
\* one more server or with the other verbose flag
Variations(p) == {p,
                  [p EXCEPT !.n_servers = @ + 1],
                  [p EXCEPT !.verbose = ~@]}

VARIABLES rng, runs

vars == <<rng, runs>>

\* ---------------------------------------------------------------------
\* simpy.Environment: the event queue
\* ---------------------------------------------------------------------
\* exc is "" for an event that succeeded, else the exception it carries
Ev(t, prio, id, kind, proc, exc) ==
    [time |-> t, priority |-> prio, eid |-> id, kind |-> kind,
     proc |-> proc, exc |-> exc]

\* heap order of Environment._queue: (time, priority, eid)
Before(e, f) ==
    \/ e.time < f.time
    \/ e.time = f.time /\ e.priority < f.priority
    \/ e.time = f.time /\ e.priority = f.priority /\ e.eid <= f.eid

NextEvent(q) == CHOOSE e \in q : \A f \in q : Before(e, f)

\* Environment.schedule(event, priority, delay)
Schedule(R, prio, delay, kind, proc, exc) ==
    [R EXCEPT !.queue = @ \cup {Ev(R.now + delay, prio, R.eid, kind, proc, exc)},
              !.eid = @ + 1]

\* the event is popped and the clock is left where it was
PopKeepsClock(R) ==
    LET e == NextEvent(R.queue)
    IN [R EXCEPT !.queue = @ \ {e},
                 !.trace = Append(@, <<e.time, e.kind, e.proc>>)]

\* Environment.step: pop the earliest event and set now to its time
Pop(R) ==
    LET e == NextEvent(R.queue)
    IN [R EXCEPT !.now = e.time,
                 !.queue = @ \ {e},
                 !.trace = Append(@, <<e.time, e.kind, e.proc>>)]

\* ---------------------------------------------------------------------
\* State of an invocation that has not been made yet
\* ---------------------------------------------------------------------
NoParams == [n_servers |-> 0, arrival_rate |-> 0, service_time |-> 0,
             sim_time |-> 0, random_seed |-> 0, verbose |-> FALSE]

NoResult == [total_customers |-> 0, avg_wait_time |-> None,
             avg_system_time |-> None]

Fresh(p) ==
    [pc |-> "idle", p |-> p, error |-> "",
     now |-> 0, queue |-> {}, eid |-> 0,
     users |-> <<>>, put_queue |-> <<>>,
     wait_times |-> <<>>, system_times |-> <<>>, customers_served |-> 0,
     i |-> 0, customers |-> <<>>,
     printed |-> 0, trace |-> <<>>, peak |-> 0,
     result |-> NoResult]

Init ==
    /\ rng \in {g \in RngStates : g.pos = 0}
    /\ runs = [r \in Runs |-> Fresh(NoParams)]

\* ---------------------------------------------------------------------
\* Checks made by the library calls
\* ---------------------------------------------------------------------
\* a capacity of 0 is let through
CapacityNotNegative(capacity) == capacity >= 0

\* simpy.Resource(env, capacity): capacity must be > 0
CapacityValid(capacity) == capacity > 0

\* env.run(until): until must be > the current simulation time
UntilValid(at, now) == at > now

\* env.timeout(delay): delay must not be negative
DelayValid(delay) == delay >= 0

\* ---------------------------------------------------------------------
\* Processes
\* ---------------------------------------------------------------------
\* a generator raised: its Process event fails and is scheduled at now
Fail(R, proc, exc) == Schedule(R, NORMAL, 0, "Process", proc, exc)

\* a request is granted while all the servers are in use
TriggerPutOverCapacity(R) ==
    IF R.put_queue # <<>> /\ Len(R.users) <= R.p.n_servers
    THEN LET c == Head(R.put_queue)
             R1 == [R EXCEPT !.users = Append(@, c), !.put_queue = Tail(@)]
         IN Schedule(R1, NORMAL, 0, "Request", c, "")
    ELSE R

\* the freed server goes to the last request of the put queue
TriggerPutLast(R) ==
    IF R.put_queue # <<>> /\ Len(R.users) < R.p.n_servers
    THEN LET c == R.put_queue[Len(R.put_queue)]
             R1 == [R EXCEPT !.users = Append(@, c),
                             !.put_queue = SubSeq(@, 1, Len(@) - 1)]
         IN Schedule(R1, NORMAL, 0, "Request", c, "")
    ELSE R

\* Resource._trigger_put / _do_put: the head of the put queue gets a
\* server if one is free; its Request event is scheduled at now
TriggerPut(R) ==
    IF R.put_queue # <<>> /\ Len(R.users) < R.p.n_servers
    THEN LET c == Head(R.put_queue)
             R1 == [R EXCEPT !.users = Append(@, c), !.put_queue = Tail(@)]
         IN Schedule(R1, NORMAL, 0, "Request", c, "")
    ELSE R

\* leaving `with server.request()`: Resource.release removes the request
\* from users and schedules the Release event at now
Release(R, c) ==
    LET R1 == [R EXCEPT !.users = SelectSeq(@, LAMBDA u : u # c)]
    IN Schedule(R1, NORMAL, 0, "Release", c, "")

\* if verbose: print(...)
Log(R) == IF R.p.verbose THEN [R EXCEPT !.printed = @ + 1] ELSE R

\* the wait is taken from time 0 rather than from the arrival
WaitSinceZero(start_service, arrival_time) == start_service

\* wait_time = start_service - arrival_time
WaitTime(start_service, arrival_time) == start_service - arrival_time

\* the append is made only under `if verbose`
RecordWaitIfVerbose(R, wait_time) ==
    IF R.p.verbose THEN [R EXCEPT !.wait_times = Append(@, wait_time)] ELSE R

\* wait_times.append(wait_time)
RecordWait(R, wait_time) == [R EXCEPT !.wait_times = Append(@, wait_time)]

\* yield env.timeout(random.expovariate(arrival_rate)), with generator state g
Draw(R, g) ==
    LET lambd == R.p.arrival_rate
    IN IF lambd = 0 THEN Fail(R, GEN, "ZeroDivisionError")
       ELSE LET gap == Expovariate(Sample(g), lambd)
            IN IF DelayValid(gap)
               THEN Schedule(R, NORMAL, gap, "Timeout", GEN, "")
               ELSE Fail(R, GEN, "ValueError")

\* env.process(customer(env, f'Customer {i}', server)); i += 1
Spawn(R) ==
    LET R1 == Schedule(R, URGENT, 0, "Initialize", R.i, "")
    IN [R1 EXCEPT !.customers = Append(@, [st |-> "created",
                                           arrival_time |-> NoTime,
                                           start_service |-> NoTime]),
                  !.i = @ + 1]

\* ---------------------------------------------------------------------
\* The result
\* ---------------------------------------------------------------------
RECURSIVE Sum(_)
Sum(s) == IF s = <<>> THEN 0 ELSE Head(s) + Sum(Tail(s))

\* round(num / den, 2) in hundredths, ties to even; num >= 0, den > 0
Round2(num, den) ==
    LET x == 100 * num
        q == x \div den
        rem == x % den
    IN IF 2 * rem < den THEN q
       ELSE IF 2 * rem > den THEN q + 1
       ELSE IF q % 2 = 0 THEN q ELSE q + 1

\* round(np.mean(xs), 2) if xs else None
Mean2(xs) == IF xs # <<>> THEN Some(Round2(Sum(xs), Len(xs))) ELSE None

Summary(R) ==
    [total_customers |-> R.customers_served,
     avg_wait_time |-> Mean2(R.wait_times),
     avg_system_time |-> Mean2(R.system_times)]

\* ---------------------------------------------------------------------
\* run_simulation up to the entry of env.run
\* ---------------------------------------------------------------------
\* the until event is dispatched after the other events of its time
ScheduleUntilLast(R) ==
    Schedule(R, NORMAL + 1, R.p.sim_time - R.now, "Until", NOBODY, "")

\* the until event of env.run(until=sim_time): urgent, so it is dispatched
\* before the other events of its time
ScheduleUntil(R) ==
    Schedule(R, URGENT, R.p.sim_time - R.now, "Until", NOBODY, "")

Raised(R, exc) == [R EXCEPT !.pc = "raised", !.error = exc]

Enter(R) ==
    IF ~CapacityValid(R.p.n_servers) THEN Raised(R, "ValueError")
    ELSE LET R1 == Schedule(R, URGENT, 0, "Initialize", GEN, "")
         IN IF ~UntilValid(R1.p.sim_time, R1.now) THEN Raised(R1, "ValueError")
            ELSE [ScheduleUntil(R1) EXCEPT !.pc = "running"]

Finished(r) == runs[r].pc \in {"returned", "raised"}

Call(r, p) ==
    /\ runs[r].pc = "idle"
    /\ rng' = Seed(rng, p.random_seed)
    /\ runs' = [runs EXCEPT ![r] = Enter(Fresh(p))]

\* ---------------------------------------------------------------------
\* env.run: one action per kind of event dispatched
\* ---------------------------------------------------------------------
Dispatching(r, kinds) ==
    /\ runs[r].pc = "running"
    /\ NextEvent(runs[r].queue).kind \in kinds

\* customer_generator starts and waits for the first arrival
GeneratorStart(r) ==
    /\ Dispatching(r, {"Initialize"})
    /\ NextEvent(runs[r].queue).proc = GEN
    /\ runs' = [runs EXCEPT ![r] = Draw(Pop(runs[r]), rng)]
    /\ rng' = Advance(rng)

\* an arrival: customer_generator creates the customer process and waits
\* for the next arrival
Arrival(r) ==
    /\ Dispatching(r, {"Timeout"})
    /\ NextEvent(runs[r].queue).proc = GEN
    /\ runs' = [runs EXCEPT ![r] = Draw(Spawn(Pop(runs[r])), rng)]
    /\ rng' = Advance(rng)

\* the customer process starts: it notes its arrival and requests a server
CustomerArrives(r) ==
    /\ Dispatching(r, {"Initialize"})
    /\ NextEvent(runs[r].queue).proc # GEN
    /\ LET c == NextEvent(runs[r].queue).proc
           R1 == Pop(runs[r])
           R2 == Log([R1 EXCEPT !.customers[c + 1].arrival_time = R1.now,
                                !.customers[c + 1].st = "waiting"])
           R3 == [R2 EXCEPT !.put_queue = Append(@, c)]
           R4 == [R3 EXCEPT !.peak = IF Len(R3.users) + Len(R3.put_queue) > @
                                     THEN Len(R3.users) + Len(R3.put_queue)
                                     ELSE @]
       IN runs' = [runs EXCEPT ![r] = TriggerPut(R4)]
    /\ UNCHANGED rng

\* the customer got a server: it records its wait and holds the server
\* for service_time
ServiceStart(r) ==
    /\ Dispatching(r, {"Request"})
    /\ LET c == NextEvent(runs[r].queue).proc
           R1 == Pop(runs[r])
           R2 == [R1 EXCEPT !.customers[c + 1].start_service = R1.now]
           R3 == Log(RecordWait(R2, WaitTime(R2.customers[c + 1].start_service,
                                             R2.customers[c + 1].arrival_time)))
       IN runs' = [runs EXCEPT ![r] =
              IF DelayValid(R3.p.service_time)
              THEN [Schedule(R3, NORMAL, R3.p.service_time, "Timeout", c, "")
                       EXCEPT !.customers[c + 1].st = "service"]
              ELSE [Fail(Release(R3, c), c, "ValueError")
                       EXCEPT !.customers[c + 1].st = "failed"]]
    /\ UNCHANGED rng

\* the service is over: the customer records its system time, is counted,
\* releases the server and ends
Departure(r) ==
    /\ Dispatching(r, {"Timeout"})
    /\ NextEvent(runs[r].queue).proc # GEN
    /\ LET c == NextEvent(runs[r].queue).proc
           R1 == Pop(runs[r])
           R2 == [R1 EXCEPT !.system_times =
                                Append(@, R1.now - R1.customers[c + 1].arrival_time),
                            !.customers_served = @ + 1]
           R3 == Release(Log(R2), c)
       IN runs' = [runs EXCEPT ![r] =
              [Schedule(R3, NORMAL, 0, "Process", c, "")
                  EXCEPT !.customers[c + 1].st = "departed"]]
    /\ UNCHANGED rng

\* the Release event is dispatched and the freed server is given to nobody
ReleasedKeepsWaiting(r) ==
    /\ Dispatching(r, {"Release"})
    /\ runs' = [runs EXCEPT ![r] = Pop(runs[r])]
    /\ UNCHANGED rng

\* the Release event: the freed server goes to the head of the queue
Released(r) ==
    /\ Dispatching(r, {"Release"})
    /\ runs' = [runs EXCEPT ![r] = TriggerPut(Pop(runs[r]))]
    /\ UNCHANGED rng

\* the event of a process that ended normally: nobody waits for it
ProcessEnds(r) ==
    /\ Dispatching(r, {"Process"})
    /\ NextEvent(runs[r].queue).exc = ""
    /\ runs' = [runs EXCEPT ![r] = Pop(runs[r])]
    /\ UNCHANGED rng

\* the event of a process that raised: env.run re-raises the exception
ProcessFails(r) ==
    /\ Dispatching(r, {"Process"})
    /\ NextEvent(runs[r].queue).exc # ""
    /\ runs' = [runs EXCEPT ![r] =
           Raised(Pop(runs[r]), NextEvent(runs[r].queue).exc)]
    /\ UNCHANGED rng

\* the until event: env.run returns and run_simulation returns the summary
Stop(r) ==
    /\ Dispatching(r, {"Until"})
    /\ LET R1 == Pop(runs[r])
       IN runs' = [runs EXCEPT ![r] =
              [R1 EXCEPT !.pc = "returned", !.result = Summary(R1)]]
    /\ UNCHANGED rng

Step(r) ==
    \/ GeneratorStart(r)
    \/ Arrival(r)
    \/ CustomerArrives(r)
    \/ ServiceStart(r)
    \/ Departure(r)
    \/ Released(r)
    \/ ProcessEnds(r)
    \/ ProcessFails(r)
    \/ Stop(r)

\* the first invocation, with any parameters
CallFirst == runs[1].pc = "idle" /\ \E p \in Params : Call(1, p)

\* the second invocation, made after the first one ended
CallSecond ==
    /\ Finished(1)
    /\ runs[2].pc = "idle"
    /\ \E p \in Variations(runs[1].p) : Call(2, p)

Next ==
    \/ CallFirst
    \/ CallSecond
    \/ \E r \in Runs : Step(r)

Spec == Init /\ [][Next]_vars

\* ---------------------------------------------------------------------
\* Properties
\* ---------------------------------------------------------------------
Called(r) == runs[r].pc # "idle"
Returned(r) == runs[r].pc = "returned"

\* the parameters section 7 of the specification calls invalid
InvalidParams(p) ==
    \/ p.n_servers < 1
    \/ p.arrival_rate <= 0
    \/ p.service_time <= 0
    \/ p.sim_time < 0

\* C1: two invocations with the same parameters, made one after the other,
\* end the same way and return the same total_customers, avg_wait_time and
\* avg_system_time.
Determinism ==
    (Finished(1) /\ Finished(2) /\ runs[2].p = runs[1].p)
        => /\ runs[2].pc = runs[1].pc
           /\ runs[2].error = runs[1].error
           /\ runs[2].result = runs[1].result

\* two equal invocations returned, with customers that waited
DeterminismWitness ==
    /\ Returned(1) /\ Returned(2)
    /\ runs[2].p = runs[1].p
    /\ runs[2].result.total_customers > 1
    /\ runs[2].result.avg_wait_time \notin {None, Some(0)}

\* C2: an invocation with arrival_rate = 0 or n_servers = 0 never returns a
\* result and does not keep running: while it runs it has dispatched at most
\* the start of customer_generator, and the next event it dispatches, at
\* time 0, is that start or the failure that ends the run.
InvalidInputRejected ==
    \A r \in Runs :
        (Called(r) /\ (runs[r].p.arrival_rate = 0 \/ runs[r].p.n_servers = 0))
            => /\ runs[r].pc \in {"running", "raised"}
               /\ runs[r].pc = "raised" => runs[r].error # ""
               /\ runs[r].pc = "running" =>
                    LET e == NextEvent(runs[r].queue)
                    IN /\ e.time = 0
                       /\ \/ runs[r].trace = <<>> /\ e.kind = "Initialize"
                          \/ Len(runs[r].trace) = 1 /\ e.kind = "Process"
                                                    /\ e.exc # ""

\* a run with arrival_rate = 0 and a server raised at the first draw
InvalidInputRejectedWitness ==
    /\ runs[1].pc = "raised"
    /\ runs[1].p.arrival_rate = 0
    /\ runs[1].p.n_servers > 0
    /\ runs[1].error = "ZeroDivisionError"
    /\ runs[1].trace # <<>>

\* C3: an invocation with n_servers < 1, arrival_rate <= 0, service_time <= 0
\* or sim_time < 0 fails at once: it has raised, no event was dispatched, no
\* customer was created and no metric was appended.
FailFastValidation ==
    \A r \in Runs :
        (Called(r) /\ InvalidParams(runs[r].p))
            => /\ runs[r].pc = "raised"
               /\ runs[r].trace = <<>>
               /\ runs[r].customers = <<>>
               /\ runs[r].wait_times = <<>>

\* C4: an invocation with sim_time = 0 and otherwise valid parameters
\* returns total_customers = 0 and both averages null.
EmptyHorizon ==
    \A r \in Runs :
        (Called(r) /\ runs[r].p.sim_time = 0 /\ ~InvalidParams(runs[r].p))
            => /\ Returned(r)
               /\ runs[r].result = NoResult

\* C5: a result with total_customers = 0 has both averages null.
EmptyRunResult ==
    \A r \in Runs :
        (Returned(r) /\ runs[r].result.total_customers = 0)
            => /\ runs[r].result.avg_wait_time = None
               /\ runs[r].result.avg_system_time = None

\* |a - b| <= 1, in hundredths: equal up to the rounding to two digits
Close(a, b) == a - b <= 1 /\ b - a <= 1

\* C6: a result with total_customers > 0 has avg_system_time equal to
\* avg_wait_time + service_time, up to the rounding to two digits.
Conservation ==
    \A r \in Runs :
        (Returned(r) /\ runs[r].result.total_customers > 0)
            => /\ runs[r].result.avg_wait_time # None
               /\ runs[r].result.avg_system_time # None
               /\ Close(runs[r].result.avg_system_time[1],
                        runs[r].result.avg_wait_time[1]
                            + 100 * runs[r].p.service_time)

\* the second invocation has one more server than the first
MoreServers == runs[2].p = [runs[1].p EXCEPT !.n_servers = @ + 1]

\* C7 as stated: with one more server and the same gaps, service_time and
\* sim_time, the returned avg_wait_time is never greater.
MonotonicCapacity ==
    (/\ Returned(1) /\ Returned(2) /\ MoreServers
     /\ runs[1].result.avg_wait_time # None
     /\ runs[2].result.avg_wait_time # None)
        => runs[2].result.avg_wait_time[1] <= runs[1].result.avg_wait_time[1]

\* C7 amended: with one more server the run records at least as many waits,
\* and the k-th customer to start service never waits longer than the k-th
\* customer of the run with one server less.
MonotonicCapacityPerCustomer ==
    (Returned(1) /\ Returned(2) /\ MoreServers)
        => /\ Len(runs[2].wait_times) >= Len(runs[1].wait_times)
           /\ \A k \in 1 .. Len(runs[1].wait_times) :
                  runs[2].wait_times[k] <= runs[1].wait_times[k]

\* the extra server shortened a wait and let more customers start service
MonotonicCapacityWitness ==
    /\ Returned(1) /\ Returned(2) /\ MoreServers
    /\ Len(runs[2].wait_times) > Len(runs[1].wait_times)
    /\ \E k \in 1 .. Len(runs[1].wait_times) :
           runs[2].wait_times[k] < runs[1].wait_times[k]

\* no customer of the run ever had to queue
NeverQueued(r) == runs[r].peak <= runs[r].p.n_servers

\* C8 as stated: a run in which no customer ever has to queue returns
\* avg_wait_time = 0.
ZeroWaitIdleCapacity ==
    \A r \in Runs :
        (Returned(r) /\ NeverQueued(r))
            => runs[r].result.avg_wait_time = Some(0)

\* C8 amended: a run in which no customer ever has to queue and at least
\* one customer started service returns avg_wait_time = 0.
ZeroWaitWhenStarted ==
    \A r \in Runs :
        (Returned(r) /\ NeverQueued(r) /\ runs[r].wait_times # <<>>)
            => runs[r].result.avg_wait_time = Some(0)

\* two customers were present together, each on a server of its own
ZeroWaitWitness ==
    \E r \in Runs :
        /\ Returned(r) /\ NeverQueued(r)
        /\ runs[r].peak >= 2
        /\ Len(runs[r].wait_times) >= 3
        /\ runs[r].result.avg_wait_time = Some(0)

\* the customers of run r that started service
Started(r) ==
    {c \in 0 .. (runs[r].i - 1) : runs[r].customers[c + 1].start_service # NoTime}

\* the time the departure of a started customer is scheduled for
DepartureTime(r, c) ==
    runs[r].customers[c + 1].start_service + runs[r].p.service_time

\* C9 as stated: at the return every pending event with time <= sim_time
\* was dispatched, and the customers counted are those whose departure
\* time is <= sim_time.
HorizonInclusive ==
    \A r \in Runs :
        Returned(r)
            => /\ \A e \in runs[r].queue : e.time > runs[r].p.sim_time
               /\ runs[r].result.total_customers =
                      Cardinality({c \in Started(r) :
                                       DepartureTime(r, c) <= runs[r].p.sim_time})

\* C9 amended: the run dispatches every pending event whose time is
\* < sim_time and no event of the processes whose time is >= sim_time; the
\* customers counted are those whose departure time is < sim_time.
HorizonExclusive ==
    \A r \in Runs :
        /\ \A k \in 1 .. Len(runs[r].trace) :
               runs[r].trace[k][2] # "Until"
                   => runs[r].trace[k][1] < runs[r].p.sim_time
        /\ Returned(r)
            => /\ \A e \in runs[r].queue : e.time >= runs[r].p.sim_time
               /\ runs[r].result.total_customers =
                      Cardinality({c \in Started(r) :
                                       DepartureTime(r, c) < runs[r].p.sim_time})
               /\ Len(runs[r].system_times) = runs[r].result.total_customers

\* a run returned with one customer counted and the departure of another
\* pending at exactly sim_time
HorizonWitness ==
    \E r \in Runs :
        /\ Returned(r)
        /\ runs[r].result.total_customers > 0
        /\ \E c \in Started(r) : DepartureTime(r, c) = runs[r].p.sim_time
        /\ \E e \in runs[r].queue :
               e.kind = "Timeout" /\ e.proc # GEN /\ e.time = runs[r].p.sim_time

\* the second invocation differs from the first in verbose only
OtherVerbose == runs[2].p = [runs[1].p EXCEPT !.verbose = ~@]

\* C10: two invocations that differ in verbose only dispatch the same
\* sequence of events and end with the same outcome and statistics.
VerboseNonInterfering ==
    (Finished(1) /\ Finished(2) /\ OtherVerbose)
        => /\ runs[2].trace = runs[1].trace
           /\ runs[2].pc = runs[1].pc
           /\ runs[2].error = runs[1].error
           /\ runs[2].wait_times = runs[1].wait_times
           /\ runs[2].system_times = runs[1].system_times
           /\ runs[2].result = runs[1].result

\* one of the two runs printed its events, the other printed nothing
VerboseWitness ==
    /\ Returned(1) /\ Returned(2) /\ OtherVerbose
    /\ runs[1].printed # runs[2].printed
    /\ runs[1].printed * runs[2].printed = 0
    /\ runs[2].result.total_customers > 1
    /\ runs[2].result.avg_wait_time \notin {None, Some(0)}

\* ---------------------------------------------------------------------
\* A /workorder request served while a /simulate request is running
\* ---------------------------------------------------------------------
MaxWorkorders == 1

\* the workorder numbers requested
Workorders == 1 .. MaxWorkorders

\* hash(workorder_number) % 1000, as a seed of the model
WorkorderSeed(w) == w % Cardinality(Seeds)

\* the generator state after n samples
RECURSIVE DrawN(_, _)
DrawN(g, n) == IF n = 0 THEN g ELSE DrawN(Advance(g), n - 1)

\* num_lines = random.randint(3, 5), from the first sample
NumLines(g) == 3 + 2 * Sample(g)

\* the samples get_workorder_details takes after seeding: randint, sample
\* of num_lines, randint, uniform and randint per line, randint
WorkorderDraws(g) == DrawN(g, 3 * NumLines(g) + 3)

\* get_workorder_details(workorder_number) on another worker thread, while
\* the second /simulate request is running and the generator still carries
\* that request's seed
Workorder(w) ==
    /\ runs[2].pc = "running"
    /\ rng.seed = runs[2].p.random_seed
    /\ rng' = WorkorderDraws(Seed(rng, WorkorderSeed(w)))
    /\ UNCHANGED runs

\* the second /simulate request repeats the first one, which was served alone
CallRepeat ==
    /\ Finished(1)
    /\ runs[2].pc = "idle"
    /\ Call(2, runs[1].p)

NextOverlap ==
    \/ CallFirst
    \/ CallRepeat
    \/ \E w \in Workorders : Workorder(w)
    \/ \E r \in Runs : Step(r)

SpecOverlap == Init /\ [][NextOverlap]_vars

\* C11: an invocation whose steps interleave with another request returns
\* exactly what it returns when executed alone: the second invocation,
\* overlapped by a /workorder request, ends as the first one, which had the
\* same parameters and ran alone.
RunIsolation ==
    (Finished(1) /\ Finished(2) /\ runs[2].p = runs[1].p)
        => /\ runs[2].pc = runs[1].pc
           /\ runs[2].error = runs[1].error
           /\ runs[2].trace = runs[1].trace
           /\ runs[2].result = runs[1].result

\* C12: in every state the number of customers holding a server is between
\* 0 and n_servers, and a step that gives a server to a request starts in a
\* state where fewer than n_servers servers are in use.
CapacityInvariant ==
    /\ [](\A r \in Runs : Len(runs[r].users) <= runs[r].p.n_servers)
    /\ [][\A r \in Runs :
             Len(runs'[r].users) > Len(runs[r].users)
                 => /\ Len(runs[r].users) < runs'[r].p.n_servers
                    /\ Len(runs'[r].users) = Len(runs[r].users) + 1]_vars

\* both servers are held and a customer waits for one
CapacityWitness ==
    \E r \in Runs :
        /\ runs[r].p.n_servers = 2
        /\ Len(runs[r].users) = 2
        /\ runs[r].put_queue # <<>>

\* the service starts of run r, in the order they were dispatched
ServiceStarts(r) == SelectSeq(runs[r].trace, LAMBDA t : t[2] = "Request")

\* C13: customers start service in the order they arrived: the k-th service
\* start is that of the k-th customer, the queue holds the waiting customers
\* in arrival order, and every waiting customer arrived after every customer
\* that holds or held a server.
FifoService ==
    \A r \in Runs :
        /\ \A k \in 1 .. Len(ServiceStarts(r)) : ServiceStarts(r)[k][3] = k - 1
        /\ \A j, k \in 1 .. Len(runs[r].put_queue) :
               j < k => runs[r].put_queue[j] < runs[r].put_queue[k]
        /\ \A k \in 1 .. Len(runs[r].put_queue) :
               /\ \A c \in Started(r) : c < runs[r].put_queue[k]
               /\ \A j \in 1 .. Len(runs[r].users) :
                      runs[r].users[j] < runs[r].put_queue[k]

\* customer d arrived at the instant a server was released, before the
\* queued customer c had started on it, and c got the server
FifoWitness ==
    \E r \in Runs : \E c, d \in Started(r) :
        /\ c < d
        /\ runs[r].customers[c + 1].arrival_time
               < runs[r].customers[c + 1].start_service
        /\ runs[r].customers[d + 1].arrival_time
               = runs[r].customers[c + 1].start_service
        /\ runs[r].customers[d + 1].start_service
               > runs[r].customers[c + 1].start_service
        /\ \E i, j \in 1 .. Len(runs[r].trace) :
               /\ i < j
               /\ runs[r].trace[i][2] = "Initialize" /\ runs[r].trace[i][3] = d
               /\ runs[r].trace[j][2] = "Request" /\ runs[r].trace[j][3] = c

\* customer c of run r had to wait for a server
Waited(r, c) ==
    runs[r].customers[c + 1].arrival_time < runs[r].customers[c + 1].start_service

\* C14: a grant takes effect at the instant it is made (the pending Release
\* and Request events are at the current time), a customer that waited
\* starts service at the instant an earlier customer's service ended, and
\* when the clock is about to advance no customer waits while fewer than
\* n_servers servers are in use.
WorkConservation ==
    \A r \in Runs :
        /\ \A e \in runs[r].queue :
               e.kind \in {"Request", "Release"} => e.time = runs[r].now
        /\ \A c \in Started(r) :
               Waited(r, c)
                   => \E d \in Started(r) :
                          /\ d < c
                          /\ DepartureTime(r, d)
                                 = runs[r].customers[c + 1].start_service
        /\ (runs[r].pc = "running" /\ NextEvent(runs[r].queue).time > runs[r].now)
               => \/ runs[r].put_queue = <<>>
                  \/ Len(runs[r].users) = runs[r].p.n_servers

\* a customer that waited has started service and another one still waits
WorkConservationWitness ==
    \E r \in Runs : \E c \in Started(r) :
        /\ Waited(r, c)
        /\ runs[r].put_queue # <<>>
        /\ NextEvent(runs[r].queue).time > runs[r].now

\* C15: the clock of a run starts at 0, is the time of the event dispatched
\* last, never decreases from one dispatch to the next and never exceeds
\* sim_time; the arrival, the service start and the departure of a customer
\* observe the time their event was scheduled for.
ClockMonotonic ==
    \A r \in Runs :
        LET tr == runs[r].trace
        IN /\ tr = <<>> => runs[r].now = 0
           /\ tr # <<>> => /\ runs[r].now = tr[Len(tr)][1]
                           /\ runs[r].now <= runs[r].p.sim_time
           /\ \A k \in 1 .. Len(tr) - 1 : tr[k][1] <= tr[k + 1][1]
           /\ \A k \in 1 .. Len(tr) :
                  tr[k][3] >= 0 =>
                      LET cust == runs[r].customers[tr[k][3] + 1]
                      IN /\ tr[k][2] = "Initialize"
                             => cust.arrival_time = tr[k][1]
                         /\ tr[k][2] = "Request"
                             => cust.start_service = tr[k][1]
                         /\ tr[k][2] = "Timeout"
                             => /\ tr[k][1] = DepartureTime(r, tr[k][3])
                                /\ runs[r].system_times[tr[k][3] + 1]
                                       = tr[k][1] - cust.arrival_time

\* the run reached its horizon after a customer waited and departed
ClockWitness ==
    \E r \in Runs :
        /\ Returned(r)
        /\ runs[r].now = runs[r].p.sim_time
        /\ runs[r].customers_served > 1
        /\ \E c \in Started(r) : Waited(r, c)

\* ---------------------------------------------------------------------
\* One invocation that keeps being stepped until it ends
\* ---------------------------------------------------------------------
NextSingle ==
    \/ CallFirst
    \/ Step(1)

\* env.run is a loop that dispatches the next event as long as there is one
SpecSingle == Init /\ [][NextSingle]_vars /\ WF_vars(Step(1))

\* C16: an invocation with valid parameters (n_servers >= 1,
\* arrival_rate > 0, service_time > 0, sim_time >= 0) eventually stops at
\* its horizon and returns a result.
Termination ==
    (Called(1) /\ ~InvalidParams(runs[1].p)) ~> Returned(1)

\* C17: wait_time and system_time are appended together at the departure:
\* in every state |wait_times| = |system_times| = customers_served.
MetricsAtDeparture ==
    \A r \in Runs :
        /\ Len(runs[r].wait_times) = Len(runs[r].system_times)
        /\ Len(runs[r].system_times) = runs[r].customers_served

\* the step is the arrival of customer c of run r
ArrivesNow(r, c) ==
    /\ c < runs[r].i
    /\ runs[r].customers[c + 1].st = "created"
    /\ runs'[r].customers[c + 1].st = "waiting"

\* after the step customer c holds a server and its service start is
\* pending at its arrival instant
GrantedAtOnce(r, c) ==
    /\ \E j \in 1 .. Len(runs'[r].users) : runs'[r].users[j] = c
    /\ \E e \in runs'[r].queue :
           /\ e.kind = "Request" /\ e.proc = c
           /\ e.time = runs'[r].customers[c + 1].arrival_time

\* the recorded wait of a started customer is its service start minus its
\* arrival; a customer in service departs service_time after its start; the
\* recorded system time of a departed customer is its wait plus service_time
FixedServiceDuration ==
    \A r \in Runs : \A c \in Started(r) :
        LET cust == runs[r].customers[c + 1]
        IN /\ runs[r].wait_times[c + 1] = cust.start_service - cust.arrival_time
           /\ ~Waited(r, c) => runs[r].wait_times[c + 1] = 0
           /\ cust.st = "service"
                  => \E e \in runs[r].queue :
                         /\ e.kind = "Timeout" /\ e.proc = c
                         /\ e.time = cust.start_service + runs[r].p.service_time
           /\ cust.st = "departed"
                  => runs[r].system_times[c + 1]
                         = runs[r].wait_times[c + 1] + runs[r].p.service_time

\* C18 as stated: a customer that arrives in a state with fewer than
\* n_servers servers in use starts service at its arrival instant with
\* wait_time = 0, and every customer that completes has system_time equal
\* to its wait_time plus service_time.
ImmediateService ==
    /\ []FixedServiceDuration
    /\ [][\A r \in Runs : \A c \in 0 .. (runs[r].i - 1) :
             (ArrivesNow(r, c) /\ Len(runs[r].users) < runs[r].p.n_servers)
                 => GrantedAtOnce(r, c)]_vars

\* C18 amended: a customer that arrives in a state with fewer than
\* n_servers servers in use and nobody waiting in the queue starts service
\* at its arrival instant with wait_time = 0, and every customer that
\* completes has system_time equal to its wait_time plus service_time.
ImmediateServiceEmptyQueue ==
    /\ []FixedServiceDuration
    /\ [][\A r \in Runs : \A c \in 0 .. (runs[r].i - 1) :
             (/\ ArrivesNow(r, c)
              /\ Len(runs[r].users) < runs[r].p.n_servers
              /\ runs[r].put_queue = <<>>)
                 => GrantedAtOnce(r, c)]_vars

\* a customer served at once and a customer that waited have both departed
ImmediateServiceWitness ==
    \E r \in Runs : \E c, d \in Started(r) :
        /\ runs[r].customers[c + 1].st = "departed"
        /\ runs[r].customers[d + 1].st = "departed"
        /\ ~Waited(r, c)
        /\ Waited(r, d)
        /\ runs[r].system_times[c + 1] = runs[r].p.service_time
        /\ runs[r].system_times[d + 1] > runs[r].p.service_time

\* the customers of run r that have arrived
Arrived(r) ==
    {c \in 0 .. (runs[r].i - 1) : runs[r].customers[c + 1].st # "created"}

\* the customers of run r in the sequence q
Members(q) == {q[j] : j \in 1 .. Len(q)}

\* C19: in every state the customers that have arrived are those waiting in
\* the queue, those holding a server and those served; a customer is in the
\* queue or on a server at most once, is counted in customers_served at
\* most once and is in neither place once served; and
\* |system_times| = customers_served <= |wait_times|
\*     <= customers_served + n_servers.
CustomerAccounting ==
    \A r \in Runs :
        LET R == runs[r]
            Departed == {c \in Arrived(r) : R.customers[c + 1].st = "departed"}
        IN /\ Cardinality(Arrived(r))
                  = Len(R.put_queue) + Len(R.users) + R.customers_served
           /\ Cardinality(Members(R.put_queue \o R.users))
                  = Len(R.put_queue) + Len(R.users)
           /\ Members(R.put_queue \o R.users) \subseteq Arrived(r) \ Departed
           /\ R.customers_served = Cardinality(Departed)
           /\ Len(R.system_times) = R.customers_served
           /\ R.customers_served <= Len(R.wait_times)
           /\ Len(R.wait_times) <= R.customers_served + R.p.n_servers

====
